---- MODULE Spec2Model ----
(***************************************************************************)
(* Presence tracking of the Blog Management application.                   *)
(*                                                                         *)
(* Server side (Blog Backend server.js, userController.js): the Socket.IO  *)
(* connection handler, its user_activity and disconnect listeners, and the *)
(* PUT /api/users/:id/offline route.  Every handler is split at its await: *)
(* the part before it issues a User.findByIdAndUpdate, the database        *)
(* applies the update at some later step, and the rest of the handler runs *)
(* at a step after that.                                                   *)
(*                                                                         *)
(* Client side (socketService.ts): the SocketService singleton, its        *)
(* listeners and its reconnect timers.                                     *)
(*                                                                         *)
(* Application (authService.ts, AuthContext.tsx, RealtimeContext.tsx):     *)
(* sign-in, sign-out with its fallback request, and the userStatuses map   *)
(* fed by the window events the socket listeners dispatch.                 *)
(***************************************************************************)
EXTENDS Integers, Sequences, FiniteSets, Bags, TLC

(* ------------------------------ bounds --------------------------------- *)

\* server connections accepted in one behaviour
MaxConns == 2
\* the last reading of the server clock: every event the server handles
\* arrives at a later time than the one before it
MaxClock == 4
\* database operations that fail in one behaviour
MaxFailures == 1
\* sockets one SocketService creates in one behaviour
MaxSockets == 2
\* reconnect timers pending at the same time
MaxTimers == 3

(* ------------------------- program constants --------------------------- *)

maxReconnectAttempts == 5
reconnectDelay == 1000

(* ---------------------------- identifiers ------------------------------ *)

\* the users of the User collection
Users == {"u1", "u2"}
\* a well-formed id that is no document of the collection
GhostId == "ghost"
\* socket.handshake.query.userId absent / no bearer token
NoUser == "none"
HandshakeIds == Users \cup {GhostId, NoUser}

Conns == 1..MaxConns
SockIds == 1..MaxSockets

VARIABLES
  conn,      \* server: per socket, its handshake userId and its phase
  db,        \* server: the User collection, isOnline and lastActive per user
  ops,       \* server: database operations in flight, awaited by a handler
  emitted,   \* server: the user_status_change events io.emit has sent, in order
  recipients, \* server: for each of them, the sockets it was sent to
  now,       \* server: the clock read by new Date()
  response,  \* server: the status of the latest PUT /:id/offline response
  errors,    \* server: the number of errors the handlers have logged (console.error)
  dropped,   \* server: the phase of the socket whose user_activity packet last found no listener
  socket,    \* client: this.socket, a socket id, or 0 for null
  userId,    \* client: this.userId, or NoUser for null
  reconnectAttempts,  \* client: this.reconnectAttempts
  timers,    \* client: the bag of delays of the setTimeout calls still pending
  sock,      \* client: per socket created by io(), its transport state and query userId
  called,    \* client: the host's latest call of connect() or disconnect(); noop tells
             \*         that it returned at its guard, seq tells it from the call before
  fresh,     \* client: a reconnect timer has been scheduled since the latest
             \*         disconnect() call; while FALSE, every pending timer is older
             \*         than that call
  scheduled, \* client: the number of reconnect timers scheduled since the latest
             \*         'connect' event or disconnect() call that found a socket
  localStorage,  \* app: the items 'token' and 'user' of window.localStorage
  user,          \* app: the user state of AuthProvider, or NoUser for null
  logout,        \* app: per invocation of AuthProvider.logout, where it stands
  userStatuses,  \* app: the userStatuses map of RealtimeProvider
  effectUser,    \* app: the user?.id the effect of RealtimeProvider last ran for;
                 \*      its window listeners are registered while this is a user
  health         \* app: the users a health check started by the effect of
                 \*      RealtimeProvider is still pending for

serverVars == <<conn, db, ops, emitted, recipients, now, response, errors, dropped>>
clientVars == <<socket, userId, reconnectAttempts, timers, sock, called, fresh, scheduled>>
appVars == <<localStorage, user, logout, userStatuses, effectUser, health>>
vars == <<conn, db, ops, emitted, recipients, now, response, errors, dropped,
          socket, userId, reconnectAttempts, timers, sock, called, fresh, scheduled,
          localStorage, user, logout, userStatuses, effectUser, health>>

(* ------------------------------ database ------------------------------- *)

\* the update documents the handlers pass to findByIdAndUpdate
ConnectUpdate(ts) == [isOnline |-> TRUE, lastActive |-> ts]

\* mutant: the heartbeat marks the user online, as the connect-time update does
ActivityUpdate_SetsOnline(ts) == [isOnline |-> TRUE, lastActive |-> ts]

ActivityUpdate(ts) == [lastActive |-> ts]

DisconnectUpdate(ts) == [isOnline |-> FALSE, lastActive |-> ts]

\* mutant: the fallback refreshes lastActive only, as updateUserActivity does
OfflineUpdate_ActivityOnly(ts) == [lastActive |-> ts]

OfflineUpdate(ts) == [isOnline |-> FALSE, lastActive |-> ts]

\* authController login: the fields user.save() writes
LoginUpdate(ts) == [isOnline |-> TRUE, lastActive |-> ts]

\* authController logout
LogoutUpdate(ts) == [isOnline |-> FALSE, lastActive |-> ts]

UpdateOf(op) ==
  CASE op.kind = "connect" -> ConnectUpdate(op.ts)
    [] op.kind = "activity" -> ActivityUpdate(op.ts)
    [] op.kind = "disconnect" -> DisconnectUpdate(op.ts)
    [] op.kind = "offline" -> OfflineUpdate(op.ts)
    [] op.kind = "login" -> LoginUpdate(op.ts)
    [] op.kind = "logout" -> LogoutUpdate(op.ts)

\* User.findByIdAndUpdate(id, upd): the collection afterwards
FindByIdAndUpdate(d, id, upd) ==
  IF id \in DOMAIN d
  THEN [d EXCEPT ![id] =
          [f \in DOMAIN d[id] |-> IF f \in DOMAIN upd THEN upd[f] ELSE d[id][f]]]
  ELSE d

\* mutant: findByIdAndUpdate resolves to a document for every id
FindResult_AlwaysDoc(d, id) == "doc"

\* what findByIdAndUpdate resolves to: the document, or null
FindResult(d, id) == IF id \in DOMAIN d THEN "doc" ELSE "null"

(* ------------------------------ helpers -------------------------------- *)

\* a connection whose transport is open: accepted, or being accepted
TransportOpen(c) == conn[c].phase \in {"registering", "live"}

\* the connections of user u whose transport is open
LiveConns(u) == {c \in Conns : conn[c].userId = u /\ TransportOpen(c)}

\* the user_activity and disconnect listeners are installed on the socket
\* only after the connect-time update has returned a user
\* mutant: the listeners are there whatever became of the socket
HandlersInstalled_Always(c) == TRUE

HandlersInstalled(c) == conn[c].phase = "live"

\* mutant: socket.broadcast.emit, every connected socket but the handler's own
Recipients_ExceptSender(sender) == {c \in Conns : TransportOpen(c)} \ {sender}

\* io.emit from the handler of socket sender: every connected socket
Recipients(sender) == {c \in Conns : TransportOpen(c)}

StatusEvent(u, online, ts) == [userId |-> u, isOnline |-> online, lastActive |-> ts]

NewOp(kind, c, u, live) ==
  [kind |-> kind, conn |-> c, userId |-> u, ts |-> now,
   live |-> live, stage |-> "issued", result |-> "none"]

(* ------------------------------- Init ---------------------------------- *)

ServerInit ==
  /\ conn = [c \in Conns |-> [userId |-> NoUser, phase |-> "free"]]
  /\ db = [u \in Users |-> [isOnline |-> FALSE, lastActive |-> 0]]
  /\ ops = {}
  /\ emitted = <<>>
  /\ recipients = <<>>
  /\ now = 1
  /\ response = 0
  /\ errors = 0
  /\ dropped = "none"

(* --------------------------- socket handlers --------------------------- *)

\* io.on('connection'): the handshake of a new socket c carrying userId uid
Connection(c, uid) ==
  /\ conn[c].phase = "free"
  /\ \A k \in Conns : k < c => conn[k].phase # "free"
  /\ now < MaxClock
  /\ now' = now + 1
  /\ IF uid = NoUser
     THEN /\ conn' = [conn EXCEPT ![c] = [userId |-> uid, phase |-> "refused"]]
          /\ UNCHANGED ops
     ELSE /\ conn' = [conn EXCEPT ![c] = [userId |-> uid, phase |-> "registering"]]
          /\ ops' = ops \cup {NewOp("connect", c, uid, Cardinality(LiveConns(uid)) + 1)}
  /\ UNCHANGED <<db, emitted, recipients, response, errors, dropped>>
  /\ UNCHANGED <<clientVars, appVars>>

\* the database applies an update in flight
DbApply(op) ==
  /\ op \in ops
  /\ op.stage = "issued"
  /\ db' = FindByIdAndUpdate(db, op.userId, UpdateOf(op))
  /\ ops' = IF op.kind \in {"activity", "login", "logout"}
            THEN ops \ {op}
            ELSE (ops \ {op}) \cup
                 {[op EXCEPT !.stage = "applied", !.result = FindResult(db, op.userId)]}
  /\ UNCHANGED <<conn, emitted, recipients, now, response, errors, dropped>>
  /\ UNCHANGED <<clientVars, appVars>>

\* the database operation fails: the awaited promise rejects
DbFail(op) ==
  /\ op \in ops
  /\ op.stage = "issued"
  /\ errors < MaxFailures
  /\ IF op.kind \in {"activity", "login", "logout"}
     THEN /\ ops' = ops \ {op}
          /\ errors' = errors + 1
     ELSE /\ ops' = (ops \ {op}) \cup {[op EXCEPT !.stage = "applied", !.result = "error"]}
          /\ UNCHANGED errors
  /\ UNCHANGED <<conn, db, emitted, recipients, now, response, dropped>>
  /\ UNCHANGED <<clientVars, appVars>>

\* io.on('connection') after its await
ConnectContinue(op) ==
  /\ op \in ops
  /\ op.kind = "connect"
  /\ op.stage = "applied"
  /\ ops' = ops \ {op}
  /\ IF op.result = "doc"
     THEN /\ emitted' = Append(emitted, StatusEvent(op.userId, TRUE, op.ts))
          /\ recipients' = Append(recipients, Recipients(op.conn))
          /\ conn' = [conn EXCEPT ![op.conn].phase =
                        IF conn[op.conn].phase = "registering" THEN "live" ELSE @]
          /\ UNCHANGED errors
     ELSE /\ conn' = [conn EXCEPT ![op.conn].phase =
                        IF conn[op.conn].phase = "registering" THEN "refused" ELSE @]
          /\ errors' = IF op.result = "error" THEN errors + 1 ELSE errors
          /\ UNCHANGED <<emitted, recipients>>
  /\ UNCHANGED <<db, now, response, dropped>>
  /\ UNCHANGED <<clientVars, appVars>>

\* socket.on('user_activity'): a heartbeat packet arrives for socket c
UserActivity(c) ==
  /\ now < MaxClock
  /\ now' = now + 1
  /\ IF HandlersInstalled(c)
     THEN /\ ops' = ops \cup {NewOp("activity", c, conn[c].userId,
                                    Cardinality(LiveConns(conn[c].userId)))}
          /\ UNCHANGED dropped
     ELSE /\ dropped' = conn[c].phase
          /\ UNCHANGED ops
  /\ UNCHANGED <<conn, db, emitted, recipients, response, errors>>
  /\ UNCHANGED <<clientVars, appVars>>

\* the transport of socket c closes; socket.on('disconnect') runs if installed
Disconnect(c) ==
  /\ TransportOpen(c)
  /\ now < MaxClock
  /\ now' = now + 1
  /\ IF HandlersInstalled(c)
     THEN /\ conn' = [conn EXCEPT ![c].phase = "closed"]
          /\ ops' = ops \cup {NewOp("disconnect", c, conn[c].userId,
                                    Cardinality(LiveConns(conn[c].userId)) - 1)}
     ELSE /\ conn' = [conn EXCEPT ![c].phase = "lost"]
          /\ UNCHANGED ops
  /\ UNCHANGED <<db, emitted, recipients, response, errors, dropped>>
  /\ UNCHANGED <<clientVars, appVars>>

\* socket.on('disconnect') after its await
DisconnectContinue(op) ==
  /\ op \in ops
  /\ op.kind = "disconnect"
  /\ op.stage = "applied"
  /\ ops' = ops \ {op}
  /\ emitted' = IF op.result = "doc"
                THEN Append(emitted, StatusEvent(op.userId, FALSE, op.ts))
                ELSE emitted
  /\ recipients' = IF op.result = "doc"
                   THEN Append(recipients, Recipients(op.conn))
                   ELSE recipients
  /\ errors' = IF op.result = "error" THEN errors + 1 ELSE errors
  /\ UNCHANGED <<conn, db, now, response, dropped>>
  /\ UNCHANGED <<clientVars, appVars>>

(* --------------------------- HTTP fallback ----------------------------- *)

\* verifyToken: the status it answers, or 0 when it calls next()
VerifyToken(caller) == IF caller \in DOMAIN db THEN 0 ELSE 401

\* mutant: setUserOffline without its check of req.user.id against the target
SetUserOffline_NoOwnerCheck(caller, target) ==
  /\ now < MaxClock
  /\ now' = now + 1
  /\ IF VerifyToken(caller) # 0
     THEN /\ response' = VerifyToken(caller)
          /\ UNCHANGED ops
     ELSE /\ ops' = ops \cup {NewOp("offline", 0, target, Cardinality(LiveConns(target)))}
          /\ UNCHANGED response
  /\ UNCHANGED <<conn, db, emitted, recipients, errors, dropped>>
  /\ UNCHANGED <<clientVars, appVars>>

\* PUT /api/users/:id/offline: verifyToken, then setUserOffline up to its await
SetUserOffline(caller, target) ==
  /\ now < MaxClock
  /\ now' = now + 1
  /\ IF VerifyToken(caller) # 0
     THEN /\ response' = VerifyToken(caller)
          /\ UNCHANGED ops
     ELSE IF caller # target
     THEN /\ response' = 403
          /\ UNCHANGED ops
     ELSE /\ ops' = ops \cup {NewOp("offline", 0, target, Cardinality(LiveConns(target)))}
          /\ UNCHANGED response
  /\ UNCHANGED <<conn, db, emitted, recipients, errors, dropped>>
  /\ UNCHANGED <<clientVars, appVars>>

\* setUserOffline after its await: the response
OfflineContinue(op) ==
  /\ op \in ops
  /\ op.kind = "offline"
  /\ op.stage = "applied"
  /\ ops' = ops \ {op}
  /\ response' = CASE op.result = "doc" -> 200
                    [] op.result = "null" -> 404
                    [] OTHER -> 500
  /\ errors' = IF op.result = "error" THEN errors + 1 ELSE errors
  /\ UNCHANGED <<conn, db, emitted, recipients, now, dropped>>
  /\ UNCHANGED <<clientVars, appVars>>

(* ------------------------------ client --------------------------------- *)

\* the reason socket.io gives a 'disconnect' caused by socket.disconnect()
ClientDisconnect == "io client disconnect"
\* the reasons of a 'disconnect' the client did not ask for; after a transport
\* close the socket's manager connects again by itself, after a server-side
\* disconnect it does not
DropReasons == {"transport close", "io server disconnect"}

ClientInit ==
  /\ socket = 0
  /\ userId = NoUser
  /\ reconnectAttempts = 0
  /\ timers = EmptyBag
  /\ sock = [s \in SockIds |-> [state |-> "unused", userId |-> NoUser]]
  /\ called = [name |-> "none", arg |-> NoUser, noop |-> FALSE, seq |-> 0]
  /\ fresh = FALSE
  /\ scheduled = 0

RECURSIVE Pow2(_)
\* Math.pow(2, n)
Pow2(n) == IF n <= 0 THEN 1 ELSE 2 * Pow2(n - 1)

\* this.socket?.connected
IsConnected == socket # 0 /\ sock[socket].state = "connected"

\* the next socket io() creates
FreeSock == CHOOSE s \in SockIds :
              sock[s].state = "unused" /\ \A k \in SockIds : k < s => sock[k].state # "unused"

\* mutant: the delay grows linearly with the attempt
AttemptReconnect_Linear(a, t) ==
  IF a >= maxReconnectAttempts
  THEN [attempts |-> a, timers |-> t]
  ELSE [attempts |-> a + 1, timers |-> t (+) SetToBag({reconnectDelay * (a + 1)})]

\* mutant: no limit on the attempts
AttemptReconnect_NoCap(a, t) ==
  [attempts |-> a + 1,
   timers |-> t (+) SetToBag({reconnectDelay * Pow2((a + 1) - 1)})]

\* mutant: the limit is tested with > instead of >=
AttemptReconnect_OffByOne(a, t) ==
  IF a > maxReconnectAttempts
  THEN [attempts |-> a, timers |-> t]
  ELSE [attempts |-> a + 1,
        timers |-> t (+) SetToBag({reconnectDelay * Pow2((a + 1) - 1)})]

\* attemptReconnect(): the counter and the pending timers afterwards
AttemptReconnect(a, t) ==
  IF a >= maxReconnectAttempts
  THEN [attempts |-> a, timers |-> t]
  ELSE [attempts |-> a + 1,
        timers |-> t (+) SetToBag({reconnectDelay * Pow2((a + 1) - 1)})]

\* the 'disconnect' listener: the counter and the pending timers afterwards
DisconnectListener(reason, a, t) ==
  IF reason # ClientDisconnect /\ a < maxReconnectAttempts
  THEN AttemptReconnect(a, t)
  ELSE [attempts |-> a, timers |-> t]

\* the 'connect' listener: the counter afterwards
ConnectListener(a) == 0

\* a closed socket that this.socket no longer names is garbage: its id is free again
Collect(sk, cur) ==
  [s \in SockIds |-> IF sk[s].state = "closed" /\ s # cur
                     THEN [state |-> "unused", userId |-> NoUser]
                     ELSE sk[s]]

\* mutant: connect() opens a socket whether or not the agent is connected
ConnectCall_Always(u) ==
  /\ \E s \in SockIds : sock[s].state = "unused"
  /\ userId' = u
  /\ socket' = FreeSock
  /\ sock' = Collect([sock EXCEPT ![FreeSock] = [state |-> "connecting", userId |-> u]],
                     FreeSock)

\* connect(userId): socket, userId and sock afterwards
ConnectCall(u) ==
  IF IsConnected
  THEN UNCHANGED <<socket, userId, sock>>
  ELSE /\ \E s \in SockIds : sock[s].state = "unused"
       /\ userId' = u
       /\ socket' = FreeSock
       /\ sock' = Collect([sock EXCEPT ![FreeSock] = [state |-> "connecting", userId |-> u]],
                          FreeSock)

\* the host calls socketService.connect(u)
Connect(u) ==
  /\ ConnectCall(u)
  /\ called' = [name |-> "connect", arg |-> u, noop |-> IsConnected, seq |-> 1 - called.seq]
  /\ UNCHANGED <<reconnectAttempts, timers, fresh, scheduled>>
  /\ UNCHANGED <<serverVars, appVars>>

\* a reconnect timer scheduled with delay d fires
TimerFire(d) ==
  /\ BagIn(d, timers)
  /\ timers' = timers (-) SetToBag({d})
  /\ IF userId # NoUser THEN ConnectCall(userId) ELSE UNCHANGED <<socket, userId, sock>>
  /\ UNCHANGED <<reconnectAttempts, called, fresh, scheduled>>
  /\ UNCHANGED <<serverVars, appVars>>

\* socket s reaches the server: its 'connect' listener runs
OnConnect(s) ==
  /\ sock[s].state = "connecting"
  /\ sock' = [sock EXCEPT ![s].state = "connected"]
  /\ reconnectAttempts' = ConnectListener(reconnectAttempts)
  /\ scheduled' = 0
  /\ UNCHANGED <<socket, userId, timers, called, fresh>>
  /\ UNCHANGED <<serverVars, appVars>>

\* socket s fails to reach the server: its 'connect_error' listener runs;
\* the socket's manager goes on trying (retry) or gives the socket up
OnConnectError(s, retry) ==
  /\ sock[s].state = "connecting"
  /\ sock' = IF retry THEN sock ELSE Collect([sock EXCEPT ![s].state = "closed"], socket)
  /\ LET r == AttemptReconnect(reconnectAttempts, timers) IN
       /\ BagCardinality(r.timers) <= MaxTimers
       /\ reconnectAttempts' = r.attempts
       /\ timers' = r.timers
       /\ fresh' = (fresh \/ r.timers # timers)
       /\ scheduled' = scheduled + BagCardinality(r.timers) - BagCardinality(timers)
  /\ UNCHANGED <<socket, userId, called>>
  /\ UNCHANGED <<serverVars, appVars>>

\* the transport of the connected socket s is lost: its 'disconnect' listener runs
OnDisconnect(s, reason) ==
  /\ sock[s].state = "connected"
  /\ sock' = Collect([sock EXCEPT ![s].state =
                        IF reason = "transport close" THEN "connecting" ELSE "closed"], socket)
  /\ LET r == DisconnectListener(reason, reconnectAttempts, timers) IN
       /\ BagCardinality(r.timers) <= MaxTimers
       /\ reconnectAttempts' = r.attempts
       /\ timers' = r.timers
       /\ fresh' = (fresh \/ r.timers # timers)
       /\ scheduled' = scheduled + BagCardinality(r.timers) - BagCardinality(timers)
  /\ UNCHANGED <<socket, userId, called>>
  /\ UNCHANGED <<serverVars, appVars>>

\* mutant: disconnect() forgets to clear the stored user id
SocketDisconnect_KeepsUserId ==
  /\ IF socket # 0
     THEN LET r == IF sock[socket].state = "connected"
                   THEN DisconnectListener(ClientDisconnect, reconnectAttempts, timers)
                   ELSE [attempts |-> reconnectAttempts, timers |-> timers] IN
            /\ BagCardinality(r.timers) <= MaxTimers
            /\ sock' = Collect([sock EXCEPT ![socket].state = "closed"], 0)
            /\ timers' = r.timers
            /\ socket' = 0
            /\ userId' = userId
            /\ reconnectAttempts' = 0
            /\ scheduled' = 0
     ELSE UNCHANGED <<socket, userId, reconnectAttempts, timers, sock, scheduled>>
  /\ fresh' = FALSE

\* socketService.disconnect()
SocketDisconnect ==
  /\ IF socket # 0
     THEN LET r == IF sock[socket].state = "connected"
                   THEN DisconnectListener(ClientDisconnect, reconnectAttempts, timers)
                   ELSE [attempts |-> reconnectAttempts, timers |-> timers] IN
            /\ BagCardinality(r.timers) <= MaxTimers
            /\ sock' = Collect([sock EXCEPT ![socket].state = "closed"], 0)
            /\ timers' = r.timers
            /\ socket' = 0
            /\ userId' = NoUser
            /\ reconnectAttempts' = 0
            /\ scheduled' = 0
     ELSE UNCHANGED <<socket, userId, reconnectAttempts, timers, sock, scheduled>>
  /\ fresh' = FALSE

\* the host calls socketService.disconnect()
DisconnectCall ==
  /\ SocketDisconnect
  /\ called' = [name |-> "disconnect", arg |-> NoUser, noop |-> (socket = 0),
                seq |-> 1 - called.seq]
  /\ UNCHANGED <<serverVars, appVars>>

ClientNext ==
  \/ \E u \in Users : Connect(u)
  \/ \E d \in BagToSet(timers) : TimerFire(d)
  \/ \E s \in SockIds : OnConnect(s)
  \/ \E s \in SockIds, retry \in BOOLEAN : OnConnectError(s, retry)
  \/ \E s \in SockIds, reason \in DropReasons : OnDisconnect(s, reason)
  \/ DisconnectCall

(* ------------------------------ restart -------------------------------- *)

\* the server process is stopped while no handler is awaiting the database,
\* and started again: every socket is gone without its disconnect listener
\* having run; server.js does nothing to the collection when it starts
Restart ==
  /\ now < MaxClock
  /\ now' = now + 1
  /\ ops = {}
  /\ \E c \in Conns : TransportOpen(c)
  /\ conn' = [c \in Conns |-> IF TransportOpen(c)
                               THEN [conn[c] EXCEPT !.phase = "lost"]
                               ELSE conn[c]]
  /\ UNCHANGED <<db, ops, emitted, recipients, response, errors, dropped>>
  /\ UNCHANGED <<clientVars, appVars>>

(* ------------------------------ HTTP auth ------------------------------ *)

\* POST /api/auth/login with the credentials of user u: login up to user.save()
HttpLogin(u) ==
  /\ now < MaxClock
  /\ now' = now + 1
  /\ ops' = ops \cup {NewOp("login", 0, u, Cardinality(LiveConns(u)))}
  /\ UNCHANGED <<conn, db, emitted, recipients, response, errors, dropped>>
  /\ UNCHANGED <<clientVars, appVars>>

\* POST /api/auth/logout with the token of user u: verifyToken, then logout up
\* to its await
HttpLogout(u) ==
  /\ now < MaxClock
  /\ now' = now + 1
  /\ VerifyToken(u) = 0
  /\ ops' = ops \cup {NewOp("logout", 0, u, Cardinality(LiveConns(u)))}
  /\ UNCHANGED <<conn, db, emitted, recipients, response, errors, dropped>>
  /\ UNCHANGED <<clientVars, appVars>>

(* ---------------------------- application ------------------------------ *)

\* the invocations of AuthProvider.logout that can be under way at once
Invocations == {"first", "second"}

\* how the POST /auth/logout of authService.logout ends: success:true,
\* success:false, or makeRequest throws
LogoutOutcomes == {"success", "unsuccessful", "throw"}
\* how userService.setUserOffline ends
FallbackOutcomes == {"ok", "throw"}

\* the user_status_change payloads that can arrive: for each user, online or
\* offline, with the earliest or the latest time of the server clock
StatusEvents == [userId : Users, isOnline : BOOLEAN, lastActive : {1, MaxClock}]
\* userStatuses.get(id) of an id the map has no entry for
NoEvent == [userId |-> NoUser, isOnline |-> FALSE, lastActive |-> 0]

\* the online_users_update payloads: an array with at most one entry per user
BulkPayloads ==
  {<<>>} \cup {<<e>> : e \in StatusEvents}
         \cup {p \in {<<e, f>> : e \in StatusEvents, f \in StatusEvents} :
                 p[1].userId # p[2].userId}

AppInit ==
  /\ localStorage = [token |-> NoUser, user |-> NoUser]
  /\ user = NoUser
  /\ logout = [i \in Invocations |-> [pc |-> "idle", path |-> "none"]]
  /\ userStatuses = [u \in Users |-> NoEvent]
  /\ effectUser = NoUser
  /\ health = {}

\* mutant: the finally block removes the token only
ClearStorage_TokenOnly(st) == [st EXCEPT !.token = NoUser]

\* the finally block of authService.logout: both items removed
ClearStorage(st) == [token |-> NoUser, user |-> NoUser]

\* mutant: an entry is kept when the event that arrives is older than it
UpdateUserStatus_KeepNewer(m, e) ==
  IF m[e.userId].lastActive > e.lastActive THEN m ELSE [m EXCEPT ![e.userId] = e]

\* updateUserStatus: newMap.set(userData.userId, userData)
UpdateUserStatus(m, e) == [m EXCEPT ![e.userId] = e]

RECURSIVE HandleBulkUpdate(_, _)
\* handleBulkUpdate: usersData.forEach(updateUserStatus)
HandleBulkUpdate(m, es) ==
  IF es = <<>> THEN m ELSE HandleBulkUpdate(UpdateUserStatus(m, Head(es)), Tail(es))

\* AuthProvider.login succeeds: authService.login stores token and user, setUser
Login(u) ==
  /\ user = NoUser
  /\ localStorage' = [token |-> u, user |-> u]
  /\ user' = u
  /\ UNCHANGED <<logout, userStatuses, effectUser, health>>
  /\ UNCHANGED <<serverVars, clientVars>>

\* AuthProvider.logout is called: authService.logout up to its first await
LogoutStart(i) ==
  /\ user # NoUser
  /\ logout[i].pc = "idle"
  /\ logout' = [logout EXCEPT ![i] = [pc |-> "request", path |-> "none"]]
  /\ UNCHANGED <<localStorage, user, userStatuses, effectUser, health>>
  /\ UNCHANGED <<serverVars, clientVars>>

\* the POST /auth/logout ends: the try block finishes, or the catch block runs
\* up to the await of the fallback; the finally block runs when neither awaits
LogoutResponse(i, outcome) ==
  /\ logout[i].pc = "request"
  /\ IF outcome = "throw" /\ localStorage.user # NoUser
     THEN /\ logout' = [logout EXCEPT ![i] = [pc |-> "fallback", path |-> outcome]]
          /\ UNCHANGED localStorage
     ELSE /\ logout' = [logout EXCEPT ![i] = [pc |-> "resolved", path |-> outcome]]
          /\ localStorage' = ClearStorage(localStorage)
  /\ UNCHANGED <<user, userStatuses, effectUser, health>>
  /\ UNCHANGED <<serverVars, clientVars>>

\* userService.setUserOffline ends: the inner try or catch, then the finally block
FallbackResponse(i, outcome) ==
  /\ logout[i].pc = "fallback"
  /\ logout' = [logout EXCEPT ![i] =
                  [pc |-> "resolved",
                   path |-> IF outcome = "ok" THEN "fallback ok" ELSE "fallback throw"]]
  /\ localStorage' = ClearStorage(localStorage)
  /\ UNCHANGED <<user, userStatuses, effectUser, health>>
  /\ UNCHANGED <<serverVars, clientVars>>

\* AuthProvider.logout after its await: setUser(null)
LogoutFinish(i) ==
  /\ logout[i].pc = "resolved"
  /\ logout' = [logout EXCEPT ![i] = [pc |-> "idle", path |-> "none"]]
  /\ user' = NoUser
  /\ UNCHANGED <<localStorage, userStatuses, effectUser, health>>
  /\ UNCHANGED <<serverVars, clientVars>>

\* the effect of RealtimeProvider runs because user?.id has changed: the
\* cleanup of the previous run removes the window listeners and calls
\* disconnect(); the new run starts a health check and adds the listeners if
\* there is a user, and calls disconnect() if there is none (the step changes
\* effectUser, so called.seq need not tell the calls apart)
EffectRun ==
  /\ effectUser # user
  /\ effectUser' = user
  /\ IF effectUser # NoUser
     THEN /\ SocketDisconnect
          /\ called' = [name |-> "disconnect", arg |-> NoUser,
                        noop |-> (socket = 0 \/ user = NoUser),
                        seq |-> called.seq]
     ELSE UNCHANGED clientVars
  /\ health' = IF user # NoUser THEN health \cup {user} ELSE health
  /\ UNCHANGED <<localStorage, user, logout, userStatuses>>
  /\ UNCHANGED serverVars

\* the health check started for user u ends: testBackendConnection calls
\* socketService.connect(u) if the backend answered success, whatever has
\* happened to the effect in the meantime
HealthResponse(u, ok) ==
  /\ u \in health
  /\ health' = health \ {u}
  /\ IF ok
     THEN /\ ConnectCall(u)
          /\ called' = [name |-> "connect", arg |-> u, noop |-> IsConnected,
                        seq |-> called.seq]
     ELSE UNCHANGED <<socket, userId, sock, called>>
  /\ UNCHANGED <<reconnectAttempts, timers, fresh, scheduled>>
  /\ UNCHANGED <<localStorage, user, logout, userStatuses, effectUser>>
  /\ UNCHANGED serverVars

\* a socket's 'user_status_change' listener dispatches the payload on window;
\* handleStatusChange runs if it is registered
UserStatusChange(e) ==
  /\ userStatuses' = IF effectUser # NoUser
                     THEN UpdateUserStatus(userStatuses, e)
                     ELSE userStatuses
  /\ UNCHANGED <<localStorage, user, logout, effectUser, health>>
  /\ UNCHANGED <<serverVars, clientVars>>

\* a socket's 'online_users_update' listener dispatches the payload on window;
\* handleBulkUpdate runs if it is registered
BulkUserUpdate(es) ==
  /\ userStatuses' = IF effectUser # NoUser
                     THEN HandleBulkUpdate(userStatuses, es)
                     ELSE userStatuses
  /\ UNCHANGED <<localStorage, user, logout, effectUser, health>>
  /\ UNCHANGED <<serverVars, clientVars>>

AppNext ==
  \/ \E u \in Users : Login(u)
  \/ \E i \in Invocations : LogoutStart(i)
  \/ \E i \in Invocations, outcome \in LogoutOutcomes : LogoutResponse(i, outcome)
  \/ \E i \in Invocations, outcome \in FallbackOutcomes : FallbackResponse(i, outcome)
  \/ \E i \in Invocations : LogoutFinish(i)
  \/ EffectRun
  \/ \E u \in Users, ok \in BOOLEAN : HealthResponse(u, ok)

StatusNext ==
  \/ \E u \in Users : Login(u)
  \/ \E i \in Invocations : LogoutStart(i)
  \/ \E i \in Invocations, outcome \in LogoutOutcomes : LogoutResponse(i, outcome)
  \/ \E i \in Invocations, outcome \in FallbackOutcomes : FallbackResponse(i, outcome)
  \/ \E i \in Invocations : LogoutFinish(i)
  \/ EffectRun
  \/ \E e \in StatusEvents : UserStatusChange(e)
  \/ \E es \in BulkPayloads : BulkUserUpdate(es)

(* ------------------------------ server --------------------------------- *)

Init == ServerInit /\ ClientInit /\ AppInit

Next ==
  \/ \E c \in Conns, uid \in HandshakeIds : Connection(c, uid)
  \/ \E op \in ops : DbApply(op)
  \/ \E op \in ops : DbFail(op)
  \/ \E op \in ops : ConnectContinue(op)
  \/ \E c \in Conns : UserActivity(c)
  \/ \E c \in Conns : Disconnect(c)
  \/ \E op \in ops : DisconnectContinue(op)
  \/ \E caller \in Users \cup {NoUser}, target \in Users \cup {GhostId} :
       SetUserOffline(caller, target)
  \/ \E op \in ops : OfflineContinue(op)
  \/ \E u \in Users : HttpLogin(u)
  \/ \E u \in Users : HttpLogout(u)
  \/ Restart

\* the server
Spec == Init /\ [][Next]_vars

\* one client agent
ClientSpec == Init /\ [][ClientNext]_vars

\* the browser application around the agent: sign-in, sign-out and the
\* RealtimeProvider's use of the agent
AppSpec == Init /\ [][AppNext]_vars

\* the status map of RealtimeProvider under the events the agent dispatches
StatusSpec == Init /\ [][StatusNext]_vars

\* the server, with every database operation in flight completing and every
\* handler running on after its await
FairSpec ==
  /\ Init
  /\ [][Next]_vars
  /\ WF_vars(\E op \in ops : DbApply(op))
  /\ WF_vars(\E op \in ops : ConnectContinue(op))
  /\ WF_vars(\E op \in ops : DisconnectContinue(op))
  /\ WF_vars(\E op \in ops : OfflineContinue(op))

(* ------------------------------ claims --------------------------------- *)

\* the user_status_change events sent for user u with the given isOnline
Broadcasts(u, online) ==
  {i \in DOMAIN emitted : emitted[i].userId = u /\ emitted[i].isOnline = online}

\* C1: once every persistence write has completed, a user's persisted isOnline
\* is true exactly when the user has a live connection, over the opens and
\* closes of the user's connections (no write failed, no connection was lost
\* while it registered, no PUT /offline was made).
C1_OnlineIffLive ==
  (/\ ops = {}
   /\ errors = 0
   /\ response = 0
   /\ \A c \in Conns : conn[c].phase # "lost")
  => \A u \in Users : db[u].isOnline = (LiveConns(u) # {})

\* C2: as long as none of a user's connections has closed, at most one
\* user_status_change with isOnline:true has been sent for that user, whether
\* the connections were opened one after the other or concurrently.
C2_OneOnlineBroadcast ==
  \A u \in Users :
    (\A c \in Conns : conn[c].userId = u => TransportOpen(c))
    => Cardinality(Broadcasts(u, TRUE)) <= 1

\* C3: when the disconnect handler of a connection finishes, it sends a
\* user_status_change (with isOnline:false) exactly if the connection was the
\* user's last live one when it closed.
C3_BroadcastOnLastClose ==
  [][\A op \in ops :
       (DisconnectContinue(op) /\ op.result = "doc")
       => IF op.live = 0
          THEN emitted' = Append(emitted, StatusEvent(op.userId, FALSE, op.ts))
          ELSE emitted' = emitted]_vars

\* C4: the update of PUT /users/{id}/offline leaves the user persisted with
\* isOnline = false whatever the user's connections are, the first time and
\* every time after; a transport disconnect changes nothing when it is
\* reported and its update also leaves isOnline = false.
C4_ForceOfflinePersists ==
  [][/\ \A op \in ops :
          (DbApply(op) /\ op.kind = "offline" /\ op.userId \in Users)
          => db'[op.userId].isOnline = FALSE
     /\ \A op \in ops :
          (DbApply(op) /\ op.kind = "disconnect" /\ op.userId \in Users)
          => db'[op.userId].isOnline = FALSE
     /\ \A c \in Conns : Disconnect(c) => db' = db]_vars

\* C4 witness: a first PUT /offline was answered 200 and the update of a second
\* one has been applied while the user still has a live connection.
C4_Witness ==
  /\ response = 200
  /\ \E op \in ops :
       /\ op.kind = "offline" /\ op.stage = "applied" /\ op.result = "doc"
       /\ op.live > 0
       /\ \E c \in Conns : conn[c].phase = "live" /\ conn[c].userId = op.userId
       /\ Broadcasts(op.userId, TRUE) # {}
       /\ db[op.userId].isOnline = FALSE

\* C5: every PUT /users/{id}/offline that succeeds sends a user_status_change
\* with isOnline:false for that user.
C5_OfflineBroadcasts ==
  [][\A op \in ops :
       (OfflineContinue(op) /\ op.result = "doc")
       => emitted' = Append(emitted, StatusEvent(op.userId, FALSE, op.ts))]_vars

\* C6: a user_activity packet on a live connection changes nothing when it
\* arrives, and its update changes no user's isOnline, no other user's
\* document and sends no user_status_change.
C6_HeartbeatOnlyLastActive ==
  [][/\ \A c \in Conns :
          (UserActivity(c) /\ conn[c].phase = "live")
          => (db' = db /\ emitted' = emitted)
     /\ \A op \in ops :
          (op.kind = "activity" /\ (DbApply(op) \/ DbFail(op)))
          => /\ emitted' = emitted
             /\ \A u \in Users :
                  /\ db'[u].isOnline = db[u].isOnline
                  /\ (u # op.userId => db'[u] = db[u])]_vars

\* C6 witness: the second event of the run was a heartbeat of the one online
\* user and its update has been applied: lastActive moved, nothing else did.
C6_Witness ==
  /\ ops = {}
  /\ response = 0
  /\ conn[2].phase = "free"
  /\ Len(emitted) = 1
  /\ \E u \in Users : db[u].isOnline /\ db[u].lastActive = 2

\* C7: a user_activity packet for a socket that is unknown, refused, still
\* registering or already closed changes no document, sends no event, starts
\* no database operation and logs no error.
C7_StrayHeartbeatNoOp ==
  [][\A c \in Conns :
       (UserActivity(c) /\ conn[c].phase # "live")
       => (db' = db /\ emitted' = emitted /\ ops' = ops /\ errors' = errors /\ conn' = conn)]_vars

\* C7 witness: a heartbeat has arrived for a connection that was already closed.
C7_Witness == dropped = "closed"

\* the delays of the attempts 1..5, in milliseconds
BackoffTable == <<1000, 2000, 4000, 8000, 16000>>

\* the sockets io() has created and that are not garbage
Created == {s \in SockIds : sock[s].state # "unused"}

\* C8: whenever a reconnect timer is scheduled the attempt counter goes up by
\* exactly one, to some n in 1..5, and the timer's delay is 1000 * 2^(n-1);
\* a failed connect below the limit schedules one; a successful transport
\* connect sets the counter to 0.
C8_Backoff ==
  [][/\ BagCardinality(timers') > BagCardinality(timers)
        => /\ reconnectAttempts' = reconnectAttempts + 1
           /\ reconnectAttempts' \in 1..5
           /\ timers' = timers (+) SetToBag({BackoffTable[reconnectAttempts']})
     /\ \A s \in SockIds, retry \in BOOLEAN :
          (OnConnectError(s, retry) /\ reconnectAttempts < 5)
          => BagCardinality(timers') = BagCardinality(timers) + 1
     /\ \A s \in SockIds : OnConnect(s) => reconnectAttempts' = 0]_vars

\* C8 witness: five consecutive failures have scheduled the five delays, and
\* the timers of the last three are still pending.
C8_Witness ==
  /\ reconnectAttempts = 5
  /\ BagToSet(timers) = {4000, 8000, 16000}

\* C9: while the attempt counter is at 5 and no reconnect timer is pending, a
\* step schedules no timer, and creates a socket only if it is an explicit
\* connect() call.
C9_GiveUp ==
  [][(reconnectAttempts >= 5 /\ timers = EmptyBag)
     => /\ timers' = EmptyBag
        /\ (Created' \subseteq Created \/ \E u \in Users : Connect(u))]_vars

\* C9 witness: the five attempts are used up, no timer is pending, and a socket
\* of the agent is still failing to connect.
C9_Witness ==
  /\ reconnectAttempts = 5
  /\ timers = EmptyBag
  /\ \E s \in SockIds : sock[s].state = "connecting"

\* C10: at a transport-level disconnect the client schedules a reconnect
\* attempt exactly if the disconnect was not asked for by disconnect(): a
\* dropped connection schedules one, and a disconnect() call schedules none
\* and leaves the agent without a socket.
C10_ReconnectIffNotUserInitiated ==
  [][/\ \A s \in SockIds, reason \in DropReasons :
          OnDisconnect(s, reason)
          => BagCardinality(timers') = BagCardinality(timers) + 1
     /\ DisconnectCall => (timers' = timers /\ socket' = 0)]_vars

\* C11: connect(u) called while the agent is connected for u changes nothing
\* of the agent: no socket is created, and socket, userId, the counter and the
\* pending timers stay as they are.
C11_ConnectNoOp ==
  [][\A u \in Users :
       (Connect(u) /\ IsConnected /\ userId = u)
       => UNCHANGED <<socket, userId, reconnectAttempts, timers, sock>>]_vars

\* C11 witness: the host's latest call was connect(u), made while the agent
\* was connected for u, with a reconnect timer of an earlier failure pending.
C11_Witness ==
  /\ IsConnected
  /\ called.name = "connect"
  /\ called.arg = userId
  /\ called.noop
  /\ sock[socket].userId = userId
  /\ timers # EmptyBag
  /\ reconnectAttempts = 0

\* C12: connect(u2) called while the agent is connected for another user closes
\* the connected socket and opens a new one carrying u2, and this.userId
\* becomes u2.
C12_ConnectReplaces ==
  [][\A u \in Users :
       (Connect(u) /\ IsConnected /\ userId # u)
       => /\ userId' = u
          /\ socket' # 0
          /\ sock'[socket'].userId = u
          /\ sock'[socket'].state = "connecting"
          /\ \A s \in SockIds : sock'[s].state = "connected" => sock'[s].userId = u]_vars

\* C13: disconnect() leaves the agent without a socket, with no userId and
\* with the attempt counter at 0, whatever the state it is called in.
C13_DisconnectResets ==
  [][DisconnectCall
     => (socket' = 0 /\ userId' = NoUser /\ reconnectAttempts' = 0)]_vars

\* C20: a reconnect timer that was pending when disconnect() was called creates
\* no socket when it fires, also when connect() has been called since.
C20_StaleTimerOpensNothing ==
  [][\A d \in BagToSet(timers) :
       (TimerFire(d) /\ ~fresh) => Created' \subseteq Created]_vars

\* C14: a handshake without userId is refused at once; a handshake whose userId
\* is no user of the collection is refused when its update has returned; in
\* both cases no document changes, no user_status_change is sent, and the
\* connection never gets its user_activity and disconnect listeners.
C14_InvalidHandshakeRefused ==
  [][/\ \A c \in Conns :
          Connection(c, NoUser)
          => (conn'[c].phase = "refused" /\ ops' = ops /\ db' = db /\ emitted' = emitted)
     /\ \A op \in ops :
          (op.kind = "connect" /\ op.userId \notin Users)
          => /\ DbApply(op) => (db' = db /\ emitted' = emitted)
             /\ ConnectContinue(op)
                => /\ conn'[op.conn].phase \in {"refused", "lost"}
                   /\ db' = db
                   /\ emitted' = emitted
     /\ \A c \in Conns :
          conn'[c].userId \notin Users => conn'[c].phase \notin {"live", "closed"}]_vars

\* C14 witness: a handshake without userId and a handshake with an id that is
\* no user have both been refused, the second after its update returned null.
C14_Witness ==
  /\ conn[1] = [userId |-> NoUser, phase |-> "refused"]
  /\ conn[2] = [userId |-> GhostId, phase |-> "refused"]
  /\ ops = {}
  /\ errors = 0

C17_LastActiveMonotonic ==
  [][\A u \in Users : db'[u].lastActive >= db[u].lastActive]_vars

\* C18: once the connection events have stopped and every update in flight
\* has completed, each user's persisted isOnline is, from some moment on, true
\* exactly when the user has a connection whose transport is open (in the runs
\* where no write failed, no PUT /offline was made and no connection was lost
\* while it registered).
C18_EventuallyConsistent ==
  <>[]((/\ errors = 0
        /\ response = 0
        /\ \A op \in ops : op.kind # "offline"
        /\ \A c \in Conns : conn[c].phase # "lost")
       => \A u \in Users : db[u].isOnline = (LiveConns(u) # {}))

\* C16: whatever the outcome of the logout request and of the fallback, the
\* invocation goes on to its end: authService.logout returns with the stored
\* token and user removed, and AuthProvider.logout then sets the user to null.
C16_SignOutCompletes ==
  [][\A i \in Invocations :
       /\ \A outcome \in LogoutOutcomes :
            LogoutResponse(i, outcome)
            => \/ logout'[i].pc = "fallback" /\ outcome = "throw"
               \/ /\ logout'[i].pc = "resolved"
                  /\ localStorage' = [token |-> NoUser, user |-> NoUser]
       /\ \A outcome \in FallbackOutcomes :
            FallbackResponse(i, outcome)
            => /\ logout'[i].pc = "resolved"
               /\ localStorage' = [token |-> NoUser, user |-> NoUser]
       /\ LogoutFinish(i) => user' = NoUser
       /\ (logout[i].pc # "idle" /\ logout'[i].pc = "idle")
          => LogoutFinish(i)]_vars

\* C16 witness: the logout request threw, the fallback threw as well, and
\* authService.logout has returned with nothing left in the storage.
C16_Witness ==
  \E i \in Invocations :
    /\ logout[i] = [pc |-> "resolved", path |-> "fallback throw"]
    /\ localStorage = [token |-> NoUser, user |-> NoUser]
    /\ user # NoUser

\* the last entry of a payload for user u, or the entry the map had
RECURSIVE LastFor(_, _, _)
LastFor(u, es, e0) ==
  IF es = <<>> THEN e0
  ELSE LastFor(u, Tail(es), IF Head(es).userId = u THEN Head(es) ELSE e0)

\* C19: a user_status_change that reaches the registered listener makes the
\* map's entry for its userId the received payload, whatever the entry was,
\* and leaves the entries of the other users alone; an online_users_update
\* does so for each of its entries in turn.
C19_LastReceivedWins ==
  [][/\ \A e \in StatusEvents :
          (effectUser # NoUser /\ UserStatusChange(e))
          => /\ userStatuses'[e.userId] = e
             /\ \A u \in Users \ {e.userId} : userStatuses'[u] = userStatuses[u]
     /\ \A es \in BulkPayloads :
          (effectUser # NoUser /\ BulkUserUpdate(es))
          => \A u \in Users : userStatuses'[u] = LastFor(u, es, userStatuses[u])]_vars

\* C19 witness: the map holds for one user an offline payload of time 1 and
\* for the other an online payload of the latest time.
C19_Witness ==
  /\ effectUser # NoUser
  /\ userStatuses["u1"] = [userId |-> "u1", isOnline |-> FALSE, lastActive |-> 1]
  /\ userStatuses["u2"] = [userId |-> "u2", isOnline |-> TRUE, lastActive |-> MaxClock]

\* C21: when the connect-time update of a connection fails, the handler logs
\* the error and the connection stays open with its user_activity and
\* disconnect listeners installed.
C21_WriteFailureKeepsConnection ==
  [][\A op \in ops :
       (ConnectContinue(op) /\ op.result = "error" /\ conn[op.conn].phase = "registering")
       => /\ errors' = errors + 1
          /\ conn'[op.conn].phase = "live"]_vars

\* the kinds of update made by the presence operations: connection register,
\* heartbeat, connection deregister and forceOffline
PresenceKinds == {"connect", "activity", "disconnect", "offline"}

\* C22: a step changes a user's persisted isOnline or lastActive only if it
\* applies an update of a presence operation.
C22_SingleWriter ==
  [][(db' # db) => \E op \in ops : op.kind \in PresenceKinds /\ DbApply(op)]_vars

\* C24: when the server process has been restarted, no user is persisted as
\* online.
C24_RestartAllOffline ==
  [][Restart => \A u \in Users : db'[u].isOnline = FALSE]_vars

\* C25: when the transport of a connection accepted for a user closes, the
\* deregistration of that connection is started, also when the connection's
\* connect-time update is still pending.
C25_DeregistrationAlwaysRuns ==
  [][\A c \in Conns :
       (Disconnect(c) /\ conn[c].userId \in Users)
       => \E op \in ops' : op.kind = "disconnect" /\ op.conn = c]_vars

\* the latest user_status_change sent for user u
LastBroadcast(u) ==
  emitted[CHOOSE i \in Broadcasts(u, TRUE) \cup Broadcasts(u, FALSE) :
            \A j \in Broadcasts(u, TRUE) \cup Broadcasts(u, FALSE) : j <= i]

\* C28: whenever no update is in flight, the persisted isOnline of a user for
\* whom a user_status_change has been sent equals the isOnline of the latest
\* one.
C28_OnlineIsLastBroadcast ==
  (ops = {})
  => \A u \in Users :
       (Broadcasts(u, TRUE) \cup Broadcasts(u, FALSE) # {})
       => db[u].isOnline = LastBroadcast(u).isOnline

\* C23: a user_status_change is sent to exactly the sockets that are connected
\* when it is emitted, the socket whose handshake caused it included, and the
\* set of sockets an earlier one was sent to never changes afterwards.
C23_DeliveredToLiveOnly ==
  [][/\ Len(recipients') = Len(emitted')
     /\ \A i \in DOMAIN recipients : recipients'[i] = recipients[i]
     /\ Len(emitted') > Len(emitted)
        => recipients'[Len(emitted')] = {c \in Conns : TransportOpen(c)}
     /\ \A op \in ops :
          (ConnectContinue(op) /\ op.result = "doc" /\ conn[op.conn].phase = "registering")
          => op.conn \in recipients'[Len(emitted')]]_vars

\* C23 witness: the first broadcast went to the only socket connected then,
\* the second to both sockets, the one whose handshake caused it included.
C23_Witness ==
  /\ Len(recipients) = 2
  /\ recipients[1] = {1}
  /\ recipients[2] = {1, 2}
  /\ emitted[2].isOnline
  /\ conn[2].phase = "live"

\* the sockets of the agent that are connected or can still become connected
OpenSocks == {s \in SockIds : sock[s].state \in {"connecting", "connected"}}

\* C26: the agent never has more than one socket that is connected or can
\* still become connected, and none after disconnect().
C26_OneTransport ==
  /\ Cardinality(OpenSocks) <= 1
  /\ socket = 0 => OpenSocks = {}

\* C29: the attempt counter is always between 0 and 5, and no more than 5
\* reconnect timers have been scheduled since the latest 'connect' event or
\* the latest disconnect() call that reset the counter.
C29_CounterRange ==
  /\ reconnectAttempts \in 0..5
  /\ scheduled \in 0..5
  /\ scheduled <= reconnectAttempts

\* C29 witness: five timers have been scheduled in a row and a sixth failure
\* has just been reported.
C29_Witness ==
  /\ scheduled = 5
  /\ reconnectAttempts = 5
  /\ timers = EmptyBag
  /\ OpenSocks = {}
  /\ socket # 0

\* C30: the stored user id is null exactly when the stored socket is null, and
\* a reconnect timer that fires opens a socket only while the agent holds one.
C30_UserIdIffSocket ==
  /\ []((userId = NoUser) <=> (socket = 0))
  /\ [][\A d \in DOMAIN timers :
          (TimerFire(d) /\ sock' # sock) => (socket # 0 /\ userId # NoUser)]_vars

\* C30 witness: disconnect() has cleared the socket and the user id while a
\* reconnect timer is still pending.
C30_Witness ==
  /\ called.name = "disconnect"
  /\ ~called.noop
  /\ socket = 0
  /\ userId = NoUser
  /\ timers # EmptyBag

\* C27: once the user has signed out and the effect of RealtimeProvider has
\* run for it, the agent holds no socket and none of its sockets is connected
\* or can still become connected, also after a health check started earlier
\* has ended.
C27_SignedOutStaysDisconnected ==
  (user = NoUser /\ effectUser = NoUser) => (socket = 0 /\ OpenSocks = {})

====
